---- MODULE Spec2Model ----
(***************************************************************************)
(* Model of the task-list view-model App (src/todo-app/src/app/app.ts).    *)
(* Strings are sequences of one-character strings, so that trim,           *)
(* toLowerCase, includes, slice and localeCompare are computed and not     *)
(* assumed.  Time is counted in whole days of November 2026.               *)
(* Spec is the component driven by its handlers; ViewSpec varies the view  *)
(* signals over stores the handlers produce, for the properties of the     *)
(* visibleTasks derivation.                                                *)
(***************************************************************************)
EXTENDS Integers, Sequences, FiniteSets, TLC

VARIABLES
  tasks,    \* the tasks signal: the ordered store
  nextId,   \* #nextId
  draft,    \* the draft form state
  filter,   \* the filter signal
  search,   \* the search signal
  sort,     \* the sort signal
  now,      \* the wall clock, Date.now()
  lastAdd   \* how the latest event ended, when it was addTask: "added" or
            \* "rejected"; "none" after any other event

vars == <<tasks, nextId, draft, filter, search, sort, now, lastAdd>>

(* ------------------------------ bounds -------------------------------- *)

\* addTask is enabled for an accepted draft only while nextId <= MaxId
MaxId == 4

\* the clock advances at most up to StartTime + MaxTicks
MaxTicks == 1

\* the stores the view is derived from hold at most MaxAdded committed drafts
MaxAdded == 3

(* --------------------------- program constants ------------------------ *)

\* 1000 * 60 * 60 * 24 milliseconds: one unit of the model's clock
Day == 1

\* the seeded value of #nextId
FirstFreeId == 4

\* slice(0, 10): the length of the date part of an ISO-8601 timestamp
DateLen == 10

\* Date.now() when the component is constructed (a day of the month)
StartTime == 10

(* ------------------------------- strings ------------------------------ *)

\* the value of an absent dueDate; no string is equal to it
Undefined == <<"undefined">>

Filters == {"all", "active", "completed"}

Sorts == {"created", "due", "priority"}

Upper == <<"A","B","C","D","E","F","G","H","I","J","K","L","M","N","O","P","Q","R","S","T","U","V","W","X","Y","Z">>

Lower == <<"a","b","c","d","e","f","g","h","i","j","k","l","m","n","o","p","q","r","s","t","u","v","w","x","y","z">>

Digits == <<"0","1","2","3","4","5","6","7","8","9">>

\* collation order of the characters of date strings and timestamps
Collation == <<"-",".",":","0","1","2","3","4","5","6","7","8","9","T","Z">>

\* the place of c in s, a sequence without repetition; 0 when c is not in s
IndexOf(c, s) == IF \E i \in 1..Len(s) : s[i] = c
                 THEN CHOOSE i \in 1..Len(s) : s[i] = c
                 ELSE 0

IsSpace(c) == c = " "

\* String.prototype.trim; the blank is the only white space of the inputs
Trim(s) ==
  LET keep == {i \in 1..Len(s) : ~IsSpace(s[i])}
  IN IF keep = {} THEN <<>>
     ELSE LET lo == CHOOSE i \in keep : \A j \in keep : i <= j
              hi == CHOOSE i \in keep : \A j \in keep : j <= i
          IN SubSeq(s, lo, hi)

LowerChar(c) == IF IndexOf(c, Upper) = 0 THEN c ELSE Lower[IndexOf(c, Upper)]

\* String.prototype.toLowerCase
ToLowerCase(s) == [i \in 1..Len(s) |-> LowerChar(s[i])]

\* String.prototype.includes
Includes(s, sub) ==
  \E k \in 0..(Len(s) - Len(sub)) : \A i \in 1..Len(sub) : s[k + i] = sub[i]

\* String.prototype.slice(0, n)
Slice0(s, n) == SubSeq(s, 1, IF n < Len(s) THEN n ELSE Len(s))

\* JavaScript truthiness of an optional string: undefined and '' are falsy
Falsy(x) == x = Undefined \/ x = <<>>

RECURSIVE LocaleCompare(_, _)
\* String.prototype.localeCompare on date strings: -1, 0 or 1
LocaleCompare(a, b) ==
  IF a = <<>> /\ b = <<>> THEN 0
  ELSE IF a = <<>> THEN -1
  ELSE IF b = <<>> THEN 1
  ELSE LET ra == IndexOf(Head(a), Collation)
           rb == IndexOf(Head(b), Collation)
       IN IF ra < rb THEN -1
          ELSE IF ra > rb THEN 1
          ELSE LocaleCompare(Tail(a), Tail(b))

TwoDigits(n) == <<Digits[(n \div 10) + 1], Digits[(n % 10) + 1]>>

\* new Date(t).toISOString(), t a day of November 2026:
\* '2026-11-' dd 'T00:00:00.000Z'
ToISOString(t) == <<"2","0","2","6","-","1","1","-">> \o TwoDigits(t) \o <<"T","0","0",":","0","0",":","0","0",".","0","0","0","Z">>

(* -------------------------------- inputs ------------------------------ *)

DefaultDraft == [title |-> <<>>, notes |-> <<>>, dueDate |-> <<>>, priority |-> "medium"]

\* the values the form fields are set to before a commit
Drafts ==
  { \* '' / ' keep me ' / '2099-01-01' / high
    [title |-> <<>>,
     notes |-> <<" ","k","e","e","p"," ","m","e"," ">>,
     dueDate |-> <<"2","0","9","9","-","0","1","-","0","1">>,
     priority |-> "high"],
    \* '  ' / '' / '' / low
    [title |-> <<" "," ">>,
     notes |-> <<>>,
     dueDate |-> <<>>,
     priority |-> "low"],
    \* ' Pull cart ' / ' n ' / '' / high
    [title |-> <<" ","P","u","l","l"," ","c","a","r","t"," ">>,
     notes |-> <<" ","n"," ">>,
     dueDate |-> <<>>,
     priority |-> "high"],
    \* 'Ship' / 'after PULL' / '2099-01-01' / low
    [title |-> <<"S","h","i","p">>,
     notes |-> <<"a","f","t","e","r"," ","P","U","L","L">>,
     dueDate |-> <<"2","0","9","9","-","0","1","-","0","1">>,
     priority |-> "low"],
    \* 'b' / '' / '2024-01-01' / medium
    [title |-> <<"b">>,
     notes |-> <<>>,
     dueDate |-> <<"2","0","2","4","-","0","1","-","0","1">>,
     priority |-> "medium"] }

\* the texts typed into the search box: '', '  ' and ' PULL '
Searches == { <<>>, <<" "," ">>, <<" ","P","U","L","L"," ">> }

\* the ids toggleCompletion and removeTask are called with
Ids == 1..(MaxId + 1)

(* ------------------------------ seed data ----------------------------- *)

SeedTasks ==
  << [id |-> 1,
      \* 'Draft weekly sprint goals'
      title |-> <<"D","r","a","f","t"," ","w","e","e","k","l","y"," ","s","p","r","i","n","t"," ","g","o","a","l","s">>,
      \* 'Share with the team in the Monday stand-up.'
      notes |-> <<"S","h","a","r","e"," ","w","i","t","h"," ","t","h","e"," ","t","e","a","m"," ","i","n"," ","t","h","e"," ","M","o","n","d","a","y"," ","s","t","a","n","d","-","u","p",".">>,
      priority |-> "high",
      completed |-> FALSE,
      createdAt |-> ToISOString(StartTime),
      dueDate |-> Slice0(ToISOString(StartTime + Day), DateLen)],
     [id |-> 2,
      \* 'Review pull requests'
      title |-> <<"R","e","v","i","e","w"," ","p","u","l","l"," ","r","e","q","u","e","s","t","s">>,
      \* 'Focus on the UI polish tasks before the release.'
      notes |-> <<"F","o","c","u","s"," ","o","n"," ","t","h","e"," ","U","I"," ","p","o","l","i","s","h"," ","t","a","s","k","s"," ","b","e","f","o","r","e"," ","t","h","e"," ","r","e","l","e","a","s","e",".">>,
      priority |-> "medium",
      completed |-> TRUE,
      createdAt |-> ToISOString(StartTime - Day * 2),
      dueDate |-> Undefined],
     [id |-> 3,
      \* 'Plan usability testing session'
      title |-> <<"P","l","a","n"," ","u","s","a","b","i","l","i","t","y"," ","t","e","s","t","i","n","g"," ","s","e","s","s","i","o","n">>,
      \* 'Collect feedback questions and invite participants.'
      notes |-> <<"C","o","l","l","e","c","t"," ","f","e","e","d","b","a","c","k"," ","q","u","e","s","t","i","o","n","s"," ","a","n","d"," ","i","n","v","i","t","e"," ","p","a","r","t","i","c","i","p","a","n","t","s",".">>,
      priority |-> "low",
      completed |-> FALSE,
      createdAt |-> ToISOString(StartTime - Day),
      dueDate |-> Slice0(ToISOString(StartTime + Day * 7), DateLen)] >>

(* ------------------------------ derivations --------------------------- *)

\* Array.prototype.filter: the subsequence of the elements satisfying Keep
RECURSIVE FilterSeq(_, _)
FilterSeq(s, keep) ==
  IF s = <<>> THEN <<>>
  ELSE IF Head(s) \in keep THEN <<Head(s)>> \o FilterSeq(Tail(s), keep)
  ELSE FilterSeq(Tail(s), keep)

Elems(s) == {s[i] : i \in 1..Len(s)}

\* a slip in the predicate: counts the tasks that are not completed
stats_CountsActive(items) ==
  LET completed == Len(FilterSeq(items, {t \in Elems(items) : ~t.completed}))
  IN [total |-> Len(items), completed |-> completed, active |-> Len(items) - completed]

stats(items) ==
  LET completed == Len(FilterSeq(items, {t \in Elems(items) : t.completed}))
  IN [total |-> Len(items), completed |-> completed, active |-> Len(items) - completed]

\* the rank table of the priority sort
\* the ranks the priority names get when they are ordered as strings
PriorityOrder_Alphabetical == [high |-> 0, low |-> 1, medium |-> 2]

PriorityOrder == [high |-> 0, medium |-> 1, low |-> 2]

MatchesFilter(task, f) ==
  \/ f = "all"
  \/ (f = "active" /\ ~task.completed)
  \/ (f = "completed" /\ task.completed)

\* a search that looks at the title only
MatchesSearch_TitleOnly(task, q) ==
  \/ q = <<>>
  \/ Includes(ToLowerCase(task.title), q)

\* q is the search text already trimmed and lower-cased
MatchesSearch(task, q) ==
  \/ q = <<>>
  \/ Includes(ToLowerCase(task.title), q)
  \/ Includes(ToLowerCase(task.notes), q)

\* a created comparator with its operands exchanged: oldest first
Compare_OldestFirst(key, a, b) ==
  IF key = "due"
  THEN IF Falsy(a.dueDate) /\ Falsy(b.dueDate) THEN 0
       ELSE IF Falsy(a.dueDate) THEN 1
       ELSE IF Falsy(b.dueDate) THEN -1
       ELSE LocaleCompare(a.dueDate, b.dueDate)
  ELSE IF key = "priority"
  THEN PriorityOrder[a.priority] - PriorityOrder[b.priority]
  ELSE LocaleCompare(a.createdAt, b.createdAt)

\* a due comparator with the signs of the absent cases exchanged
Compare_AbsentFirst(key, a, b) ==
  IF key = "due"
  THEN IF Falsy(a.dueDate) /\ Falsy(b.dueDate) THEN 0
       ELSE IF Falsy(a.dueDate) THEN -1
       ELSE IF Falsy(b.dueDate) THEN 1
       ELSE LocaleCompare(a.dueDate, b.dueDate)
  ELSE IF key = "priority"
  THEN PriorityOrder[a.priority] - PriorityOrder[b.priority]
  ELSE LocaleCompare(b.createdAt, a.createdAt)

\* a due comparator without its first line: two absent dates do not tie
Compare_NoTieForAbsent(key, a, b) ==
  IF key = "due"
  THEN IF Falsy(a.dueDate) THEN 1
       ELSE IF Falsy(b.dueDate) THEN -1
       ELSE LocaleCompare(a.dueDate, b.dueDate)
  ELSE IF key = "priority"
  THEN PriorityOrder[a.priority] - PriorityOrder[b.priority]
  ELSE LocaleCompare(b.createdAt, a.createdAt)

\* the comparator handed to Array.prototype.sort for each sort key
Compare(key, a, b) ==
  IF key = "due"
  THEN IF Falsy(a.dueDate) /\ Falsy(b.dueDate) THEN 0
       ELSE IF Falsy(a.dueDate) THEN 1
       ELSE IF Falsy(b.dueDate) THEN -1
       ELSE LocaleCompare(a.dueDate, b.dueDate)
  ELSE IF key = "priority"
  THEN PriorityOrder[a.priority] - PriorityOrder[b.priority]
  ELSE LocaleCompare(b.createdAt, a.createdAt)

\* x goes after every element that does not compare greater than it
RECURSIVE InsertSorted(_, _, _)
InsertSorted(key, x, s) ==
  IF s = <<>> THEN <<x>>
  ELSE IF Compare(key, Head(s), x) <= 0 THEN <<Head(s)>> \o InsertSorted(key, x, Tail(s))
  ELSE <<x>> \o s

\* Array.prototype.sort: a stable sort, here by insertion from the left
RECURSIVE SortInto(_, _, _)
SortInto(key, s, acc) ==
  IF s = <<>> THEN acc
  ELSE SortInto(key, Tail(s), InsertSorted(key, Head(s), acc))

StableSort(key, s) == SortInto(key, s, <<>>)

VisibleTasks(items, f, text, key) ==
  LET q == ToLowerCase(Trim(text))
      filtered == FilterSeq(items, {t \in Elems(items) : MatchesFilter(t, f) /\ MatchesSearch(t, q)})
  IN StableSort(key, filtered)

\* the visibleTasks computed signal in the current state
visibleTasks == VisibleTasks(tasks, filter, search, sort)

(* ------------------------------ operations ---------------------------- *)

\* the id counter declared as #nextId = 1
Init_CounterFromOne ==
  /\ tasks = SeedTasks
  /\ nextId = 1
  /\ draft = DefaultDraft
  /\ filter = "all"
  /\ search = <<>>
  /\ sort = "created"
  /\ now = StartTime
  /\ lastAdd = "none"

Init ==
  /\ tasks = SeedTasks
  /\ nextId = FirstFreeId
  /\ draft = DefaultDraft
  /\ filter = "all"
  /\ search = <<>>
  /\ sort = "created"
  /\ now = StartTime
  /\ lastAdd = "none"

\* the form fields are edited (two-way bound to draft)
editDraft ==
  \E d \in Drafts :
    /\ draft' = d
    /\ lastAdd' = "none"
    /\ UNCHANGED <<tasks, nextId, filter, search, sort, now>>

\* the title and the notes are stored as typed
NewTask_KeepsBlanks(d, id, t) ==
  [id |-> id,
   title |-> d.title,
   notes |-> d.notes,
   priority |-> d.priority,
   dueDate |-> IF Falsy(d.dueDate) THEN Undefined ELSE d.dueDate,
   completed |-> FALSE,
   createdAt |-> ToISOString(t)]

NewTask(d, id, t) ==
  [id |-> id,
   title |-> Trim(d.title),
   notes |-> Trim(d.notes),
   priority |-> d.priority,
   dueDate |-> IF Falsy(d.dueDate) THEN Undefined ELSE d.dueDate,
   completed |-> FALSE,
   createdAt |-> ToISOString(t)]

\* ++this.#nextId in place of this.#nextId++
PreIncrement(n) == [value |-> n + 1, next |-> n + 1]

\* this.#nextId++ : the value used and the value stored
PostIncrement(n) == [value |-> n, next |-> n + 1]

\* a guard that forgets to trim: if (!this.draft.title) return
EmptyTitle_Untrimmed(d) == d.title = <<>>

\* const title = this.draft.title.trim(); if (!title) return
EmptyTitle(d) == Trim(d.title) = <<>>

\* the reset clears the text fields and keeps the chosen priority
addTask_KeepsPriority ==
  IF EmptyTitle(draft)
  THEN /\ lastAdd' = "rejected"
       /\ UNCHANGED <<tasks, nextId, draft, filter, search, sort, now>>
  ELSE /\ nextId <= MaxId
       /\ tasks' = Append(tasks, NewTask(draft, PostIncrement(nextId).value, now))
       /\ nextId' = PostIncrement(nextId).next
       /\ draft' = [DefaultDraft EXCEPT !.priority = draft.priority]
       /\ lastAdd' = "added"
       /\ UNCHANGED <<filter, search, sort, now>>

\* the rejected path also resets the draft
addTask_ResetsOnReject ==
  IF EmptyTitle(draft)
  THEN /\ lastAdd' = "rejected"
       /\ draft' = DefaultDraft
       /\ UNCHANGED <<tasks, nextId, filter, search, sort, now>>
  ELSE /\ nextId <= MaxId
       /\ tasks' = Append(tasks, NewTask(draft, PostIncrement(nextId).value, now))
       /\ nextId' = PostIncrement(nextId).next
       /\ draft' = DefaultDraft
       /\ lastAdd' = "added"
       /\ UNCHANGED <<filter, search, sort, now>>

addTask ==
  IF EmptyTitle(draft)
  THEN /\ lastAdd' = "rejected"
       /\ UNCHANGED <<tasks, nextId, draft, filter, search, sort, now>>
  ELSE /\ nextId <= MaxId
       /\ tasks' = Append(tasks, NewTask(draft, PostIncrement(nextId).value, now))
       /\ nextId' = PostIncrement(nextId).next
       /\ draft' = DefaultDraft
       /\ lastAdd' = "added"
       /\ UNCHANGED <<filter, search, sort, now>>

\* the toggled task is rebuilt with a fresh createdAt
ToggleCompletion_Restamps(list, taskId) ==
  [i \in 1..Len(list) |->
     IF list[i].id = taskId
     THEN [list[i] EXCEPT !.completed = ~list[i].completed, !.createdAt = ToISOString(now)]
     ELSE list[i]]

\* completed: true in place of completed: !task.completed
ToggleCompletion_SetsTrue(list, taskId) ==
  [i \in 1..Len(list) |->
     IF list[i].id = taskId THEN [list[i] EXCEPT !.completed = TRUE]
     ELSE list[i]]

ToggleCompletion(list, taskId) ==
  [i \in 1..Len(list) |->
     IF list[i].id = taskId THEN [list[i] EXCEPT !.completed = ~list[i].completed]
     ELSE list[i]]

toggleCompletion(taskId) ==
  /\ tasks' = ToggleCompletion(tasks, taskId)
  /\ lastAdd' = "none"
  /\ UNCHANGED <<nextId, draft, filter, search, sort, now>>

\* tasks.splice(taskId - 1, 1): the id taken for a position
RemoveTask_ByPosition(list, taskId) ==
  [i \in 1..(IF taskId \in 1..Len(list) THEN Len(list) - 1 ELSE Len(list)) |->
     IF i < taskId THEN list[i] ELSE list[i + 1]]

RemoveTask(list, taskId) == FilterSeq(list, {t \in Elems(list) : t.id # taskId})

\* a removal that hands the latest id back to the allocator
removeTask_ReleasesId(taskId) ==
  /\ tasks' = RemoveTask(tasks, taskId)
  /\ nextId' = IF taskId = nextId - 1 /\ taskId >= FirstFreeId THEN nextId - 1 ELSE nextId
  /\ lastAdd' = "none"
  /\ UNCHANGED <<draft, filter, search, sort, now>>

removeTask(taskId) ==
  /\ tasks' = RemoveTask(tasks, taskId)
  /\ lastAdd' = "none"
  /\ UNCHANGED <<nextId, draft, filter, search, sort, now>>

updateFilter ==
  \E f \in Filters :
    /\ filter' = f
    /\ lastAdd' = "none"
    /\ UNCHANGED <<tasks, nextId, draft, search, sort, now>>

updateSort ==
  \E s \in Sorts :
    /\ sort' = s
    /\ lastAdd' = "none"
    /\ UNCHANGED <<tasks, nextId, draft, filter, search, now>>

onSearchChange ==
  \E text \in Searches :
    /\ search' = text
    /\ lastAdd' = "none"
    /\ UNCHANGED <<tasks, nextId, draft, filter, sort, now>>

\* the predicate without its negation
ClearCompleted_KeepsCompleted(list) == FilterSeq(list, {t \in Elems(list) : t.completed})

ClearCompleted(list) == FilterSeq(list, {t \in Elems(list) : ~t.completed})

\* clearing the completed tasks also switches the filter back to all
clearCompleted_ResetsFilter ==
  /\ tasks' = ClearCompleted(tasks)
  /\ filter' = "all"
  /\ lastAdd' = "none"
  /\ UNCHANGED <<nextId, draft, search, sort, now>>

clearCompleted ==
  /\ tasks' = ClearCompleted(tasks)
  /\ lastAdd' = "none"
  /\ UNCHANGED <<nextId, draft, filter, search, sort, now>>

\* completed: !task.completed in place of completed: true
CompleteAll_Flips(list) == [i \in 1..Len(list) |-> [list[i] EXCEPT !.completed = ~list[i].completed]]

CompleteAll(list) == [i \in 1..Len(list) |-> [list[i] EXCEPT !.completed = TRUE]]

completeAll ==
  /\ tasks' = CompleteAll(tasks)
  /\ lastAdd' = "none"
  /\ UNCHANGED <<nextId, draft, filter, search, sort, now>>

\* time passes between two events
\* a sort applied to the stored array itself
StoreAfterRecompute_SortsInPlace(list, key) == StableSort(key, list)

\* filter() returns a new array and the sort runs on the copy [...filtered]:
\* the stored array is the one it was
StoreAfterRecompute(list, key) == list

\* the visibleTasks signal is evaluated again
recompute ==
  /\ tasks' = StoreAfterRecompute(tasks, sort)
  /\ lastAdd' = "none"
  /\ UNCHANGED <<nextId, draft, filter, search, sort, now>>

tick ==
  /\ now < StartTime + MaxTicks
  /\ now' = now + Day
  /\ lastAdd' = "none"
  /\ UNCHANGED <<tasks, nextId, draft, filter, search, sort>>

Next ==
  \/ editDraft
  \/ addTask
  \/ \E taskId \in Ids : toggleCompletion(taskId)
  \/ \E taskId \in Ids : removeTask(taskId)
  \/ updateFilter
  \/ updateSort
  \/ onSearchChange
  \/ clearCompleted
  \/ completeAll
  \/ recompute
  \/ tick

Spec == Init /\ [][Next]_vars

(* ------------------- the derivations over drawn stores ----------------- *)

\* the drafts addTask accepts
AcceptedDrafts == {d \in Drafts : ~EmptyTitle(d)}

\* the drafts committed, in order
CommitSeqs == UNION {[1..k -> AcceptedDrafts] : k \in 0..MaxAdded}

\* the store after the drafts ds[i], ds[i+1], ... are committed, the i-th
\* commit made gap days after the one before
RECURSIVE Committed(_, _, _, _)
Committed(list, ds, gap, i) ==
  IF i > Len(ds) THEN list
  ELSE Committed(Append(list, NewTask(ds[i], FirstFreeId + i - 1, StartTime + gap * i)),
                 ds, gap, i + 1)

\* the store after removeTask(id) for every id of the set
RECURSIVE RemoveAll(_, _)
RemoveAll(list, ids) ==
  IF ids = {} THEN list
  ELSE LET id == CHOOSE x \in ids : TRUE
       IN RemoveAll(RemoveTask(list, id), ids \ {id})

\* a store the program reaches: the seeded store after some commits, the
\* removal of some seeded tasks and at most one toggleCompletion
ViewInit ==
  \E ds \in CommitSeqs, gap \in {0, Day}, gone \in SUBSET (1..(FirstFreeId - 1)),
     toggled \in 0..(FirstFreeId + MaxAdded - 1) :
    /\ tasks = ToggleCompletion(RemoveAll(Committed(SeedTasks, ds, gap, 1), gone), toggled)
    /\ nextId = FirstFreeId + Len(ds)
    /\ draft = DefaultDraft
    /\ filter = "all"
    /\ search = <<>>
    /\ sort = "created"
    /\ now = StartTime + gap * Len(ds)
    /\ lastAdd = "none"

ViewNext ==
  \/ updateFilter
  \/ updateSort
  \/ onSearchChange
  \/ recompute

ViewSpec == ViewInit /\ [][ViewNext]_vars

(* ------------------------------- claims ------------------------------- *)

IdsOf(list) == {list[i].id : i \in 1..Len(list)}

CountCompleted(list) == Cardinality({i \in 1..Len(list) : list[i].completed})

\* an id that was allocated and is no longer in the store
Gone(i) == i \in 1..(nextId - 1) /\ i \notin IdsOf(tasks)

(* C1: in every reachable state stats.total is the number of stored tasks,  *)
(* stats.completed is the number of stored tasks with completed = true,     *)
(* and active + completed = total with active >= 0.                         *)
C1_StatsCountTheStore ==
  LET s == stats(tasks)
  IN /\ s.total = Len(tasks)
     /\ s.completed = CountCompleted(tasks)
     /\ s.active + s.completed = s.total
     /\ s.active >= 0

\* a grown store with both kinds of task in it
C1_Witness ==
  /\ Len(tasks) = 4
  /\ stats(tasks) = [total |-> 4, completed |-> 3, active |-> 1]

(* C2: in every reachable state no two stored tasks have the same id and    *)
(* every stored id is strictly below the next-id counter.                   *)
C2_IdsUniqueBelowCounter ==
  /\ \A i, j \in 1..Len(tasks) : tasks[i].id = tasks[j].id => i = j
  /\ \A i \in 1..Len(tasks) : tasks[i].id < nextId

\* an id has been allocated beyond the seeded ones and is in the store
C2_Witness == nextId > FirstFreeId /\ FirstFreeId \in IdsOf(tasks)

(* C3: once an allocated id is out of the store it is in no later store and *)
(* in no later visibleTasks; the counter never decreases and every id that  *)
(* enters the store is one the counter had not yet reached.                 *)
C3_GoneIdNeverReturns ==
  /\ [](\A i \in Ids : Gone(i) => i \notin IdsOf(visibleTasks))
  /\ [][ /\ nextId' >= nextId
         /\ \A i \in IdsOf(tasks') \ IdsOf(tasks) : i >= nextId
         /\ \A i \in Ids : Gone(i) => i \notin IdsOf(tasks') ]_vars

\* a task was added after a seeded task had left the store
C3_Witness ==
  /\ lastAdd = "added"
  /\ \E i \in 1..(FirstFreeId - 1) : Gone(i)
  /\ FirstFreeId \in IdsOf(visibleTasks)

\* s has a character that is not white space
NonBlank(s) == \E i \in 1..Len(s) : s[i] # " "

\* t is s without its leading and trailing white space
IsTrimOf(t, s) ==
  /\ t = <<>> \/ (t[1] # " " /\ t[Len(t)] # " ")
  /\ \E a \in 0..Len(s) :
       /\ a + Len(t) <= Len(s)
       /\ \A i \in 1..a : s[i] = " "
       /\ \A i \in 1..Len(t) : s[a + i] = t[i]
       /\ \A i \in (a + Len(t) + 1)..Len(s) : s[i] = " "

\* the step is a run of addTask
AddTaskStep == lastAdd' # "none"

\* the place of the task with this id in the list
Pos(list, id) == CHOOSE i \in 1..Len(list) : list[i].id = id

(* C4: addTask with a title that is non-empty after trimming appends one    *)
(* task and changes nothing else in the store: the new task has the old     *)
(* counter as its id, completed = false, the trimmed title and notes, the   *)
(* draft priority, and no dueDate when the draft dueDate is ''; total and   *)
(* the counter grow by exactly 1.                                           *)
C4_AddAppendsOneTask ==
  [][ (AddTaskStep /\ NonBlank(draft.title)) =>
        /\ stats(tasks').total = stats(tasks).total + 1
        /\ Len(tasks') = Len(tasks) + 1
        /\ \A i \in 1..Len(tasks) : tasks'[i] = tasks[i]
        /\ LET t == tasks'[Len(tasks')]
           IN /\ t.id = nextId
              /\ t.completed = FALSE
              /\ IsTrimOf(t.title, draft.title)
              /\ IsTrimOf(t.notes, draft.notes)
              /\ t.priority = draft.priority
              /\ draft.dueDate = <<>> => t.dueDate = Undefined
        /\ nextId' = nextId + 1 ]_vars

\* the draft " Pull cart " / " n " / '' has just been committed
C4_Witness ==
  /\ lastAdd = "added"
  /\ Len(tasks) = 4
  /\ tasks[4].title = <<"P","u","l","l"," ","c","a","r","t">>
  /\ tasks[4].notes = <<"n">>
  /\ tasks[4].dueDate = Undefined

(* C5: addTask with an empty or white-space-only title leaves the store,    *)
(* the three counts and the next-id counter unchanged.                      *)
C5_RejectedAddIsNoOp ==
  [][ (AddTaskStep /\ ~NonBlank(draft.title)) =>
        /\ tasks' = tasks
        /\ stats(tasks') = stats(tasks)
        /\ nextId' = nextId ]_vars

\* an add with a white-space-only title has just been rejected
C5_Witness ==
  /\ lastAdd = "rejected"
  /\ draft.title = <<" ", " ">>
  /\ Len(tasks) = 3
  /\ nextId = FirstFreeId

(* C6, as stated: after any commit, a rejected one included, the draft      *)
(* holds the defaults.                                                      *)
C6_DraftResetAfterAnyCommit == lastAdd # "none" => draft = DefaultDraft

(* C6, amended: a commit resets the draft to the defaults exactly when the  *)
(* add succeeds; a rejected add (empty or white-space-only title) leaves    *)
(* every draft field, notes, dueDate and priority included, as it was.      *)
C6_DraftResetOnlyOnSuccess ==
  [][ /\ (AddTaskStep /\ NonBlank(draft.title)) => draft' = DefaultDraft
      /\ (AddTaskStep /\ ~NonBlank(draft.title)) => draft' = draft ]_vars

\* a rejected add has left typed notes, a due date and a priority in place
C6_Witness ==
  /\ lastAdd = "rejected"
  /\ draft.title = <<>>
  /\ draft.notes # <<>>
  /\ draft.dueDate # <<>>
  /\ draft.priority = "high"

(* C7: toggleCompletion(id) flips the completed flag of the task with that  *)
(* id and leaves every other task, the length and the order as they were;   *)
(* applied twice to any reachable store, for an id in it, it gives the      *)
(* store back.                                                              *)
C7_ToggleIsAnInvolution ==
  /\ [](\A id \in IdsOf(tasks) :
          ToggleCompletion(ToggleCompletion(tasks, id), id) = tasks)
  /\ [][ \A id \in IdsOf(tasks) : toggleCompletion(id) =>
           /\ Len(tasks') = Len(tasks)
           /\ \A i \in 1..Len(tasks) :
                IF tasks[i].id = id
                THEN /\ tasks'[i].completed = ~tasks[i].completed
                     /\ [tasks'[i] EXCEPT !.completed = tasks[i].completed] = tasks[i]
                ELSE tasks'[i] = tasks[i] ]_vars

\* seeded task 1 has been toggled to completed, task 3 has not
C7_Witness ==
  /\ Len(tasks) = 3
  /\ tasks[1].id = 1 /\ tasks[1].completed
  /\ tasks[3].id = 3 /\ ~tasks[3].completed

(* C8: toggleCompletion(id) and removeTask(id) with an id that is not in    *)
(* the store can always be called, and leave the store and the next-id      *)
(* counter unchanged.                                                       *)
C8_UnknownIdIsNoOp ==
  /\ [](\A id \in Ids \ IdsOf(tasks) :
          ENABLED toggleCompletion(id) /\ ENABLED removeTask(id))
  /\ [][ \A id \in Ids \ IdsOf(tasks) :
           (toggleCompletion(id) \/ removeTask(id)) =>
             (tasks' = tasks /\ nextId' = nextId) ]_vars

\* task 1 is gone with tasks behind it in the store, and a second
\* removeTask(1) is possible
C8_Witness ==
  /\ Gone(1)
  /\ Len(tasks) = 3
  /\ ENABLED removeTask(1)

(* C9: clearCompleted keeps exactly the tasks with completed = false,       *)
(* unchanged and in their relative order; afterwards stats.completed = 0    *)
(* and stats.total is the previous stats.active.                            *)
C9_ClearKeepsTheActive ==
  [][ clearCompleted =>
        /\ IdsOf(tasks') = {tasks[i].id : i \in {j \in 1..Len(tasks) : ~tasks[j].completed}}
        /\ \A k \in 1..Len(tasks') : tasks'[k] = tasks[Pos(tasks, tasks'[k].id)]
        /\ \A k, l \in 1..Len(tasks') :
             k < l => Pos(tasks, tasks'[k].id) < Pos(tasks, tasks'[l].id)
        /\ stats(tasks').completed = 0
        /\ stats(tasks').total = stats(tasks).active ]_vars

\* the seeded completed task and a completed added task are gone, the two
\* active seeded tasks are left
C9_Witness ==
  /\ Gone(2) /\ Gone(FirstFreeId)
  /\ IdsOf(tasks) = {1, 3}
  /\ stats(tasks).completed = 0

(* C10: completeAll sets completed = true on every task and alters nothing  *)
(* else: same length, same order, every other field of every task kept;     *)
(* afterwards stats.active = 0 and stats.completed = stats.total.           *)
C10_CompleteAllOnlySetsFlag ==
  [][ completeAll =>
        /\ Len(tasks') = Len(tasks)
        /\ \A i \in 1..Len(tasks) :
             /\ tasks'[i].completed = TRUE
             /\ [tasks'[i] EXCEPT !.completed = tasks[i].completed] = tasks[i]
        /\ stats(tasks').active = 0
        /\ stats(tasks').completed = stats(tasks').total ]_vars

\* four tasks, all of them completed
C10_Witness ==
  /\ Len(tasks) = 4
  /\ stats(tasks) = [total |-> 4, completed |-> 4, active |-> 0]

(* ----------------------- claims about the derivations ------------------ *)

\* the two characters are the same letter, whatever their case
SameLetter(c, d) ==
  c = d \/ \E n \in 1..Len(Upper) : {c, d} = {Upper[n], Lower[n]}

\* q occurs in s when the case of the letters is ignored
OccursIgnoringCase(q, s) ==
  \E k \in 0..(Len(s) - Len(q)) : \A i \in 1..Len(q) : SameLetter(s[k + i], q[i])

\* the task passes the filter stage of the current view
PassesFilterStage(t) ==
  \/ filter = "all"
  \/ (filter = "active" /\ t.completed = FALSE)
  \/ (filter = "completed" /\ t.completed = TRUE)

\* the task passes the search stage of the current view
PassesSearchStage(t) ==
  \E a \in 1..(Len(search) + 1), b \in 0..Len(search) :
    LET q == SubSeq(search, a, b)
    IN /\ IsTrimOf(q, search)
       /\ (q = <<>> \/ OccursIgnoringCase(q, t.title) \/ OccursIgnoringCase(q, t.notes))

\* how many times the task occurs in the list
Occurrences(t, list) == Cardinality({k \in 1..Len(list) : list[k] = t})

(* C11: visibleTasks contains exactly once each stored task that passes the *)
(* filter stage and the search stage (the trimmed search text, compared     *)
(* without regard to case, is empty or occurs in the title or the notes)    *)
(* and contains nothing else; with filter = all and an empty search it is   *)
(* a permutation of the store.                                              *)
C11_VisibleIsTheStoreThroughBothStages ==
  LET vis == visibleTasks
  IN /\ \A i \in 1..Len(tasks) :
          Occurrences(tasks[i], vis) =
            IF PassesFilterStage(tasks[i]) /\ PassesSearchStage(tasks[i]) THEN 1 ELSE 0
     /\ \A k \in 1..Len(vis) : \E i \in 1..Len(tasks) : tasks[i] = vis[k]
     /\ (filter = "all" /\ ~NonBlank(search)) =>
          /\ Len(vis) = Len(tasks)
          /\ \A i \in 1..Len(tasks) : Occurrences(tasks[i], vis) = 1

\* the search ' PULL ' under the active filter: 'Pull cart' is shown for its
\* title, 'Ship' for its notes 'after PULL', the completed 'Review pull
\* requests' is held back by the filter and the seeded task 1 by the search
C11_Witness ==
  /\ search = <<" ","P","U","L","L"," ">>
  /\ filter = "active"
  /\ \E i \in 1..Len(tasks) : tasks[i].id = 1
  /\ \E i \in 1..Len(tasks) : tasks[i].id = 2 /\ tasks[i].completed
  /\ \E k \in 1..Len(visibleTasks) : visibleTasks[k].title = <<"S","h","i","p">>
  /\ \E k \in 1..Len(visibleTasks) : visibleTasks[k].title = <<"P","u","l","l"," ","c","a","r","t">>
  /\ IdsOf(visibleTasks) \cap {1, 2} = {}

\* the number a digit character stands for
DigitValue(c) == CHOOSE n \in 0..9 : Digits[n + 1] = c

\* the number written by the digits s[from..to]
RECURSIVE NumberAt(_, _, _)
NumberAt(s, from, to) ==
  IF to < from THEN 0
  ELSE NumberAt(s, from, to - 1) * 10 + DigitValue(s[to])

\* the calendar day 'YYYY-MM-DD...' as the number YYYYMMDD
DateNumber(d) == NumberAt(d, 1, 4) * 10000 + NumberAt(d, 6, 7) * 100 + NumberAt(d, 9, 10)

HasDueDate(t) == t.dueDate # Undefined

(* C12: with sort = due, visibleTasks is ascending by dueDate among the     *)
(* tasks that have one, every task without a dueDate comes after every task *)
(* with one, and tasks that tie (equal dueDate, or both without) keep the   *)
(* relative order they have in the store.                                   *)
C12_DueOrderIsAscendingAbsentLastStable ==
  sort = "due" =>
    LET vis == visibleTasks
    IN \A k, l \in 1..Len(vis) :
         k < l =>
           /\ HasDueDate(vis[l]) => HasDueDate(vis[k])
           /\ (HasDueDate(vis[k]) /\ HasDueDate(vis[l])) =>
                DateNumber(vis[k].dueDate) <= DateNumber(vis[l].dueDate)
           /\ (vis[k].dueDate = vis[l].dueDate) =>
                Pos(tasks, vis[k].id) < Pos(tasks, vis[l].id)

\* sorted by due with two tasks due on the same day, two tasks without a
\* dueDate and a task due before a task that precedes it in the store
C12_Witness ==
  /\ sort = "due"
  /\ LET vis == visibleTasks
     IN /\ \E k, l \in 1..Len(vis) :
             k < l /\ HasDueDate(vis[k]) /\ vis[k].dueDate = vis[l].dueDate
        /\ \E k, l \in 1..Len(vis) :
             k < l /\ ~HasDueDate(vis[k]) /\ ~HasDueDate(vis[l])
        /\ \E k, l \in 1..Len(vis) :
             /\ k < l /\ HasDueDate(vis[k]) /\ HasDueDate(vis[l])
             /\ DateNumber(vis[k].dueDate) < DateNumber(vis[l].dueDate)
             /\ Pos(tasks, vis[l].id) < Pos(tasks, vis[k].id)

\* the dueDate values '2099-01-01' and '2024-01-01'
Due2099 == <<"2","0","9","9","-","0","1","-","0","1">>

Due2024 == <<"2","0","2","4","-","0","1","-","0","1">>

\* in the list sorted by due, every task whose dueDate is the first value
\* stands before every task whose dueDate is the second
DueSortPlaces(first, second) ==
  sort = "due" =>
    LET vis == visibleTasks
    IN \A k, l \in 1..Len(vis) :
         (vis[k].dueDate = first /\ vis[l].dueDate = second) => k < l

\* in the list sorted by due, two tasks without a dueDate are in store order
AbsentDueKeepStoreOrder ==
  sort = "due" =>
    LET vis == visibleTasks
    IN \A k, l \in 1..Len(vis) :
         (k < l /\ ~HasDueDate(vis[k]) /\ ~HasDueDate(vis[l])) =>
           Pos(tasks, vis[k].id) < Pos(tasks, vis[l].id)

\* C13 as stated: sorting by due places a task due 2099-01-01 before a task
\* with no dueDate and before a task due 2024-01-01, and two tasks with no
\* dueDate keep their relative order. The ascending comparator puts
\* 2024-01-01 first, so this does not hold.
C13_Due2099BeforeDue2024 ==
  /\ DueSortPlaces(Due2099, Undefined)
  /\ DueSortPlaces(Due2099, Due2024)
  /\ AbsentDueKeepStoreOrder

(* C13: sorting by due places a task due 2099-01-01 before every task with  *)
(* no dueDate and AFTER every task due 2024-01-01 (ascending order); two    *)
(* tasks with no dueDate keep their relative order.                         *)
C13_Due2024BeforeDue2099BeforeAbsent ==
  /\ DueSortPlaces(Due2099, Undefined)
  /\ DueSortPlaces(Due2024, Due2099)
  /\ AbsentDueKeepStoreOrder

\* sorted by due, the store holds in this order a task with no dueDate, a
\* task due 2099-01-01, a second task with no dueDate and a task due
\* 2024-01-01, and all four are shown
C13_Witness ==
  /\ sort = "due"
  /\ \E a, b, c, d \in 1..Len(tasks) :
       /\ a < b /\ b < c /\ c < d
       /\ ~HasDueDate(tasks[a]) /\ tasks[b].dueDate = Due2099
       /\ ~HasDueDate(tasks[c]) /\ tasks[d].dueDate = Due2024
       /\ {tasks[a].id, tasks[b].id, tasks[c].id, tasks[d].id} \subseteq IdsOf(visibleTasks)

\* the rank of a priority: high first, low last
Rank(p) == CASE p = "high" -> 0 [] p = "medium" -> 1 [] p = "low" -> 2

\* the priorities and the ids of a list, in its order
PrioritiesOf(list) == [i \in 1..Len(list) |-> list[i].priority]

IdSeqOf(list) == [i \in 1..Len(list) |-> list[i].id]

(* C14: with sort = priority, no task of visibleTasks stands before a task  *)
(* of strictly higher priority (high < medium < low in rank) and tasks of   *)
(* equal priority keep the relative order they have in the store; a store   *)
(* [A:low, B:high, C:high, D:medium] shown whole yields [B, C, D, A].       *)
C14_PriorityOrderIsByRankStable ==
  sort = "priority" =>
    LET vis == visibleTasks
    IN /\ \A k, l \in 1..Len(vis) :
            k < l =>
              /\ Rank(vis[k].priority) <= Rank(vis[l].priority)
              /\ (vis[k].priority = vis[l].priority) =>
                   Pos(tasks, vis[k].id) < Pos(tasks, vis[l].id)
       /\ (/\ PrioritiesOf(tasks) = <<"low", "high", "high", "medium">>
           /\ Len(vis) = Len(tasks)) =>
            IdSeqOf(vis) = <<tasks[2].id, tasks[3].id, tasks[4].id, tasks[1].id>>

\* the store [3:low, 4:high, 5:high, 6:medium] shown whole, sorted by priority
C14_Witness ==
  /\ sort = "priority"
  /\ PrioritiesOf(tasks) = <<"low", "high", "high", "medium">>
  /\ IdSeqOf(visibleTasks) = <<tasks[2].id, tasks[3].id, tasks[4].id, tasks[1].id>>

\* the time of day of 'YYYY-MM-DDTHH:MM:SS.mmmZ' in milliseconds
MillisOfDay(ts) ==
  ((NumberAt(ts, 12, 13) * 60 + NumberAt(ts, 15, 16)) * 60 + NumberAt(ts, 18, 19)) * 1000
    + NumberAt(ts, 21, 23)

\* the instant written by the first timestamp is later than the second's
IsLater(ta, tb) ==
  \/ DateNumber(ta) > DateNumber(tb)
  \/ (DateNumber(ta) = DateNumber(tb) /\ MillisOfDay(ta) > MillisOfDay(tb))

(* C15: with sort = created, visibleTasks is descending by createdAt: in    *)
(* every adjacent pair the first task is not earlier than the second, a     *)
(* task created later than every other visible task is at the head, and     *)
(* tasks with identical createdAt keep store order.                         *)
C15_CreatedOrderIsNewestFirstStable ==
  sort = "created" =>
    LET vis == visibleTasks
    IN /\ \A k \in 1..(Len(vis) - 1) : ~IsLater(vis[k + 1].createdAt, vis[k].createdAt)
       /\ \A k \in 1..Len(vis) :
            (\A l \in 1..Len(vis) : l # k => IsLater(vis[k].createdAt, vis[l].createdAt))
              => k = 1
       /\ \A k, l \in 1..Len(vis) :
            (k < l /\ vis[k].createdAt = vis[l].createdAt) =>
              Pos(tasks, vis[k].id) < Pos(tasks, vis[l].id)

\* three tasks added on three later days to the seeded store: the last one
\* added is at the head, the seeded tasks follow by age
C15_Witness ==
  /\ sort = "created"
  /\ IdSeqOf(tasks) = <<1, 2, 3, 4, 5, 6>>
  /\ IdSeqOf(visibleTasks) = <<6, 5, 4, 1, 3, 2>>

(* -------------------- claims about the whole component ----------------- *)

\* the two tasks agree on every field but completed
SameButCompleted(t, u) == [t EXCEPT !.completed = u.completed] = u

(* C16: as long as a task with a given id is in the store its createdAt,    *)
(* title, notes, priority and dueDate are those it was created or seeded    *)
(* with: no step changes them, a seeded task in the store has its seeded    *)
(* values, and only completed can differ.                                   *)
C16_OnlyCompletedEverChanges ==
  /\ [](\A i \in 1..Len(tasks) :
          tasks[i].id < FirstFreeId => SameButCompleted(tasks[i], SeedTasks[tasks[i].id]))
  /\ [][ \A i \in 1..Len(tasks), j \in 1..Len(tasks') :
           tasks[i].id = tasks'[j].id => SameButCompleted(tasks'[j], tasks[i]) ]_vars

\* a day after the start the seeded task 2 has been toggled to incomplete
\* and the task added on the first day has been completed; both still carry
\* the createdAt they got
C16_Witness ==
  /\ now = StartTime + Day
  /\ \E i \in 1..Len(tasks) :
       /\ tasks[i].id = 2 /\ ~tasks[i].completed
       /\ tasks[i].createdAt = SeedTasks[2].createdAt
  /\ \E i \in 1..Len(tasks) :
       /\ tasks[i].id = FirstFreeId /\ tasks[i].completed
       /\ tasks[i].createdAt = ToISOString(StartTime)

CompletedOf(list) == [i \in 1..Len(list) |-> list[i].completed]

(* C17: in the initial state the store holds exactly the three seeded tasks *)
(* with ids 1, 2, 3 (1 high and incomplete, 2 medium and completed, 3 low   *)
(* and incomplete), the next-id counter is 4 and stats is                   *)
(* {total: 3, completed: 1, active: 2}.                                     *)
C17_InitialStateIsTheSeededStore ==
  Init =>
    /\ IdSeqOf(tasks) = <<1, 2, 3>>
    /\ PrioritiesOf(tasks) = <<"high", "medium", "low">>
    /\ CompletedOf(tasks) = <<FALSE, TRUE, FALSE>>
    /\ nextId = 4
    /\ stats(tasks) = [total |-> 3, completed |-> 1, active |-> 2]

\* the state the component is constructed in: three tasks, nothing added,
\* the clock at its start, the view at its defaults
C17_Witness ==
  /\ Len(tasks) = 3
  /\ \A i \in 1..(nextId - 1) : ~Gone(i)
  /\ now = StartTime
  /\ lastAdd = "none"
  /\ draft = DefaultDraft
  /\ <<filter, search, sort>> = <<"all", <<>>, "created">>
  /\ CompletedOf(tasks) = CompletedOf(SeedTasks)

(* C18: right after an addTask that succeeded the draft holds the defaults  *)
(* title '', notes '', dueDate '' and priority medium, whatever was typed   *)
(* into it before.                                                          *)
C18_DraftIsDefaultAfterSuccessfulAdd ==
  lastAdd = "added" =>
    /\ draft.title = <<>>
    /\ draft.notes = <<>>
    /\ draft.dueDate = <<>>
    /\ draft.priority = "medium"

\* the draft 'Ship' / 'after PULL' / '2099-01-01' / low has just been
\* committed and the form is blank again
C18_Witness ==
  /\ lastAdd = "added"
  /\ LET t == tasks[Len(tasks)]
     IN /\ t.title = <<"S","h","i","p">>
        /\ t.priority = "low"
        /\ t.dueDate = Due2099
        /\ t.notes # <<>>
  /\ draft = DefaultDraft

(* C19: in every reachable state the store is in strictly increasing id     *)
(* order, the order of insertion: no operation, and no evaluation of        *)
(* visibleTasks under any sort key, reorders the stored tasks.              *)
C19_StoreStaysInIdOrder ==
  \A i \in 1..(Len(tasks) - 1) : tasks[i].id < tasks[i + 1].id

\* after an add and the removal of seeded task 2 the whole store is shown
\* sorted by due, in an order that is not the store's
C19_Witness ==
  /\ sort = "due"
  /\ Gone(2)
  /\ nextId > FirstFreeId
  /\ Len(tasks) >= 3
  /\ Len(visibleTasks) = Len(tasks)
  /\ IdSeqOf(visibleTasks) # IdSeqOf(tasks)
  /\ lastAdd = "none"

\* the step is one of the operations on the view parameters
ViewOperation == updateFilter \/ updateSort \/ onSearchChange

\* the step is one of the operations on the store
StoreOperation ==
  \/ addTask
  \/ \E taskId \in Ids : toggleCompletion(taskId)
  \/ \E taskId \in Ids : removeTask(taskId)
  \/ clearCompleted
  \/ completeAll

(* C20: the view parameters and the store are independent: updateFilter,    *)
(* updateSort and onSearchChange leave the tasks, the next-id counter, the  *)
(* draft and stats as they were; addTask, toggleCompletion, removeTask,     *)
(* clearCompleted and completeAll leave filter, search and sort as they     *)
(* were; no step changes both sides.                                        *)
C20_ViewAndStoreAreIndependent ==
  [][ /\ ViewOperation =>
           /\ UNCHANGED <<tasks, nextId, draft>>
           /\ stats(tasks') = stats(tasks)
      \* a step that changes the view is no store operation
      /\ (<<filter, search, sort>>' # <<filter, search, sort>>) => ~StoreOperation
      /\ (<<filter, search, sort>>' = <<filter, search, sort>>)
           \/ (<<tasks, nextId, draft>>' = <<tasks, nextId, draft>>) ]_vars

\* a task has just been added, and seeded task 1 removed before it, under
\* the completed filter, the search ' PULL ' and the due sort; the stats
\* are those of the changed store
C20_Witness ==
  /\ lastAdd = "added"
  /\ Gone(1)
  /\ filter = "completed"
  /\ search = <<" ","P","U","L","L"," ">>
  /\ sort = "due"
  /\ stats(tasks) = [total |-> 3, completed |-> 1, active |-> 2]

====
